---- MODULE Spec2Model ----
(***************************************************************************)
(* State-machine model of the playback engine of Plaesthetic               *)
(* (src/modules/playback.py, class MusicPlayer): the session fields, the   *)
(* pygame mixer, the player's lock, the progress-tracking threads and the  *)
(* threads that call the control operations.                               *)
(*                                                                         *)
(* Time is an integer count of clock quanta.  progress is the percentage   *)
(* the code computes as (elapsed / song_length) * 100; the track length    *)
(* of the model divides 100, so that this quotient is represented exactly. *)
(***************************************************************************)
EXTENDS Integers, FiniteSets, Sequences, TLC

\* ---- bounds -------------------------------------------------------------
NumCallers == 2
MaxThreads == 2
MaxTime == 3
VolumeSlack == 10
FloatBits == 5
MaxCoord == 2
VecDim == 2
MaxSongs == 3
MaxRecords == 2

\* ---- inputs -------------------------------------------------------------
Callers == 1..NumCallers
Threads == 1..MaxThreads
Songs == {"local", "online", "radio"}
NoSong == "none"
NoThread == 0

\* song_info['type'] of a library record
SongType(s) ==
  IF s = "local" THEN "local" ELSE IF s = "online" THEN "online" ELSE "radio"

\* what _calculate_song_length returns for the file of a local record: the
\* number len(AudioSegment) gives, which the code divides elapsed time by as
\* it is
ProbedLength(s) == 2

\* outcomes of the try block of play(): both calls succeed, mixer.music.load
\* raises, or AudioSegment.from_file raises after mixer.music.play()
LoadOutcomes == {"ok", "load_fail", "probe_fail"}

Caller(c) == <<"caller", c>>
Tracker(t) == <<"tracker", t>>

Min(a, b) == IF a < b THEN a ELSE b
Max(a, b) == IF a > b THEN a ELSE b

VARIABLES
  current_song,       \* self.current_song (NoSong models None)
  is_playing,         \* self.is_playing
  is_paused,          \* self.is_paused
  progress,           \* self.progress, percent
  song_length,        \* self.song_length
  start_time,         \* self.start_time
  progress_thread,    \* self.progress_thread (NoThread models None)
  thread_stop_event,  \* self.thread_stop_event
  lock,               \* self.lock: the set of threads inside "with self.lock"
  mixer,              \* pygame.mixer.music: loaded song and output status
  now,                \* time.time()
  tpc,                \* position of every tracking thread
  call,               \* the call each caller thread is executing
  lib,                \* the library file at lib_path
  mm,                 \* the match_music call in progress
  sim,                \* the cosine_similarity call in progress
  req                 \* the last request to the library manager

session == <<current_song, is_playing, is_paused, progress, song_length,
             start_time>>
\* the variables of the player, and those outside it
player == <<current_song, is_playing, is_paused, progress, song_length,
            start_time, progress_thread, thread_stop_event, lock, mixer, now,
            tpc, call>>
outside == <<lib, mm, sim, req>>
vars == <<player, outside>>

\* ---- derived views ------------------------------------------------------
\* the fields of the session as one record (taken when a call gets the lock)
Snapshot ==
  [song |-> current_song, playing |-> is_playing, paused |-> is_paused,
   progress |-> progress, start |-> start_time, length |-> song_length]

NoSnapshot ==
  [song |-> NoSong, playing |-> FALSE, paused |-> FALSE,
   progress |-> 0, start |-> 0, length |-> 0]

\* the state of the spec's state machine encoded by the two flags
StateOf(s) ==
  IF s.paused THEN "Paused" ELSE IF s.playing THEN "Playing" ELSE "Idle"

State == StateOf(Snapshot)

\* the tuple get_progress builds from a session
ViewOf(s) == <<s.playing /\ ~s.paused, s.progress, s.song>>

IdleCall ==
  [pc |-> "idle", op |-> "none", arg |-> NoSong, num |-> 0, ok |-> FALSE,
   env |-> "none", spawned |-> 0, t |-> 0,
   view |-> <<FALSE, 0, NoSong>>, pre |-> NoSnapshot]

Alive(t) == tpc[t] # "none"
AliveThreads == {t \in Threads : Alive(t)}

\* ---- the lock -----------------------------------------------------------
\* a lock that excludes nobody
CanAcquireAlways(who) == TRUE

\* threading.Lock is not reentrant: acquire blocks while anybody holds it,
\* the caller itself included
CanAcquire(who) == lock = {}

\* ---- pure helpers -------------------------------------------------------
\* min(100.0, (elapsed / self.song_length) * 100) with elapsed = t - start
ProgressAt(t, start, length) == Min(100, ((t - start) * 100) \div length)

\* a resume that restarts the clock
ResumeStartRestart(t) == t

\* time.time() - (self.progress / 100.0 * self.song_length)
ResumeStart(t) == t - ((progress * song_length) \div 100)

\* a pause that does not look at is_paused
PauseGuardLoose == is_playing

\* the condition under which pause() acts
PauseGuard == is_playing /\ ~is_paused

\* a flag that does not look at is_paused
ActivelyPlayingLoose == is_playing

\* the first component of the tuple get_progress returns
ActivelyPlaying == is_playing /\ ~is_paused

\* a tracker that does not look at is_paused
TrackerSkipsIgnoresPause == ~is_playing \/ current_song = NoSong

\* the "continue" condition of _track_progress
TrackerSkips == ~is_playing \/ is_paused \/ current_song = NoSong

\* a thread object that is created and never started
StartThreadNever(t) == tpc

\* threading.Thread(target=self._track_progress).start()
StartThread(t) == [tpc EXCEPT ![t] = "check"]

\* the mixer keeps the music volume as an integer from 0 to MIX_MAX_VOLUME
MixMaxVolume == 128

\* the C conversion (int)x of the quotient n / d, which rounds towards zero
Trunc(n, d) == IF n >= 0 THEN n \div d ELSE -((-n) \div d)

\* pygame.mixer.music.set_volume(pct / 100): the mixer is handed
\* (int)(pct / 100 * MIX_MAX_VOLUME); it takes a negative level as a query
\* and keeps the volume it has, and it cuts a level above the maximum down
MixerSetVolume(cur, pct) ==
  LET level == Trunc(pct * MixMaxVolume, 100) IN
    IF level < 0 THEN cur ELSE Min(MixMaxVolume, level)

\* pygame.mixer is initialised: after pygame.mixer.quit() every call of
\* pygame.mixer.music raises pygame.error
MixerUp == mixer.status # "quit"

\* a set_progress that stores its argument as it is
ClampProgressNone(x) == x

\* max(0.0, min(100.0, percentage))
ClampProgress(x) == Max(0, Min(100, x))

\* the slot a new thread object gets
FreeSlot == CHOOSE t \in Threads : ~Alive(t) /\ \A u \in Threads : ~Alive(u) => t <= u

\* ---- the state outside the player -----------------------------------------
\* no file at lib_path
NoLibrary == [exists |-> FALSE, songs |-> <<>>]

\* no match_music call under way
IdleMatch ==
  [pc |-> "idle", query |-> "none", api_key |-> "", top_n |-> 0,
   library |-> <<>>, query_embedding |-> <<>>, matches |-> <<>>,
   calls |-> 0, asked |-> <<>>, failed_at |-> 0, result |-> <<>>,
   error |-> "none"]

\* no cosine_similarity call under way
IdleSim == [pc |-> "idle", vec1 |-> <<>>, vec2 |-> <<>>, result |-> <<0, 0>>]

\* no request to the manager yet
NoRequest == [op |-> "none", status |-> 0]

OutsideInit ==
  /\ lib = NoLibrary
  /\ mm = IdleMatch
  /\ sim = IdleSim
  /\ req = NoRequest

\* MusicPlayer.__init__
PlayerInit ==
  /\ current_song = NoSong
  /\ is_playing = FALSE
  /\ is_paused = FALSE
  /\ progress = 0
  /\ song_length = 0
  /\ start_time = 0
  /\ progress_thread = NoThread
  /\ thread_stop_event = FALSE
  /\ lock = {}
  /\ mixer = [song |-> NoSong, status |-> "stopped", volume |-> MixMaxVolume]
  /\ now = 0
  /\ tpc = [t \in Threads |-> "none"]
  /\ call = [c \in Callers |-> IdleCall]

Init == PlayerInit /\ OutsideInit

\* ---- the clock ----------------------------------------------------------
Tick ==
  /\ now < MaxTime
  /\ now' = now + 1
  /\ UNCHANGED <<session, progress_thread, thread_stop_event, lock, mixer,
                 tpc, call>>
  /\ UNCHANGED outside

\* ---- play ---------------------------------------------------------------
\* play(): "with self.lock" and the test of is_playing / is_paused; an
\* active session sends the caller into self.stop()
PlayEnter(c, s) ==
  /\ call[c].pc = "idle"
  /\ CanAcquire(Caller(c))
  /\ lock' = lock \cup {Caller(c)}
  /\ call' = [call EXCEPT ![c] =
       [IdleCall EXCEPT !.pc = IF is_playing \/ is_paused
                               THEN "stop_enter" ELSE "play_body",
                        !.op = "play", !.arg = s, !.pre = Snapshot]]
  /\ UNCHANGED <<session, progress_thread, thread_stop_event, mixer, now, tpc>>
  /\ UNCHANGED outside

\* play(): everything after the stop, up to the return statement
PlayBody(c) ==
  /\ call[c].pc = "play_body"
  /\ LET s == call[c].arg IN
     /\ is_paused' = FALSE
     /\ progress' = 0
     /\ IF SongType(s) = "local"
        THEN \E out \in LoadOutcomes :
             /\ MixerUp \/ out = "load_fail"
             /\ out = "ok" => \E t \in Threads : ~Alive(t)
             /\ mixer' = IF out = "load_fail" THEN mixer
                         ELSE [mixer EXCEPT !.song = s, !.status = "playing"]
             /\ start_time' = IF out = "load_fail" THEN start_time ELSE now
             /\ IF out = "ok"
                THEN /\ song_length' = ProbedLength(s)
                     /\ thread_stop_event' = FALSE
                     /\ progress_thread' = FreeSlot
                     /\ tpc' = StartThread(FreeSlot)
                     /\ is_playing' = TRUE
                     /\ current_song' = s
                ELSE /\ current_song' = NoSong
                     /\ UNCHANGED <<song_length, thread_stop_event,
                                    progress_thread, tpc, is_playing>>
             /\ call' = [call EXCEPT ![c].pc = "done",
                                     ![c].ok = (out = "ok"),
                                     ![c].env = out,
                                     ![c].t = now,
                                     ![c].spawned = Cardinality(
                                       {t \in Threads : ~Alive(t) /\ tpc'[t] # "none"})]
        ELSE /\ current_song' = s
             /\ call' = [call EXCEPT ![c].pc = "done", ![c].ok = FALSE]
             /\ UNCHANGED <<mixer, start_time, song_length, thread_stop_event,
                            progress_thread, tpc, is_playing>>
  /\ UNCHANGED <<lock, now>>
  /\ UNCHANGED outside

\* the end of a "with self.lock" block and the return to the caller
Return(c) ==
  /\ call[c].pc = "done"
  /\ lock' = lock \ {Caller(c)}
  /\ call' = [call EXCEPT ![c] = IdleCall]
  /\ UNCHANGED <<session, progress_thread, thread_stop_event, mixer, now, tpc>>
  /\ UNCHANGED outside

\* ---- pause / resume ---------------------------------------------------
\* pause(): the lock, the guard, mixer.music.pause() and is_paused = True
PauseEnter(c) ==
  /\ call[c].pc = "idle"
  /\ CanAcquire(Caller(c))
  /\ lock' = lock \cup {Caller(c)}
  /\ IF PauseGuard /\ MixerUp
     THEN /\ mixer' = [mixer EXCEPT !.status =
                 IF mixer.status = "playing" THEN "paused" ELSE mixer.status]
          /\ is_paused' = TRUE
          /\ call' = [call EXCEPT ![c] =
               [IdleCall EXCEPT !.pc = "pause_calc", !.op = "pause",
                                !.pre = Snapshot]]
     ELSE /\ call' = [call EXCEPT ![c] =
               [IdleCall EXCEPT !.pc = "done", !.op = "pause",
                                !.pre = Snapshot]]
          /\ UNCHANGED <<mixer, is_paused>>
  /\ UNCHANGED <<current_song, is_playing, progress, song_length, start_time,
                 progress_thread, thread_stop_event, now, tpc>>
  /\ UNCHANGED outside

\* pause(): elapsed = time.time() - start_time and the write of progress
PauseCalc(c) ==
  /\ call[c].pc = "pause_calc"
  /\ progress' = ProgressAt(now, start_time, song_length)
  /\ call' = [call EXCEPT ![c].pc = "done", ![c].t = now]
  /\ UNCHANGED <<current_song, is_playing, is_paused, song_length, start_time,
                 progress_thread, thread_stop_event, lock, mixer, now, tpc>>
  /\ UNCHANGED outside

\* resume(): the whole body
Resume(c) ==
  /\ call[c].pc = "idle"
  /\ CanAcquire(Caller(c))
  /\ lock' = lock \cup {Caller(c)}
  /\ IF is_paused /\ MixerUp
     THEN /\ mixer' = [mixer EXCEPT !.status =
                 IF mixer.status = "paused" THEN "playing" ELSE mixer.status]
          /\ start_time' = ResumeStart(now)
          /\ is_paused' = FALSE
          /\ is_playing' = TRUE
     ELSE UNCHANGED <<mixer, start_time, is_paused, is_playing>>
  /\ call' = [call EXCEPT ![c] =
       [IdleCall EXCEPT !.pc = "done", !.op = "resume", !.t = now,
                        !.pre = Snapshot]]
  /\ UNCHANGED <<current_song, progress, song_length, progress_thread,
                 thread_stop_event, now, tpc>>
  /\ UNCHANGED outside

\* ---- stop / skip --------------------------------------------------------
\* the three assignments that end stop()
StopReset ==
  /\ is_playing' = FALSE
  /\ is_paused' = FALSE
  /\ progress' = 0

\* where stop() hands control back: the play() or the cleanup() that called
\* it, or its caller
AfterStop(op) ==
  IF op = "play" THEN "play_body"
  ELSE IF op = "cleanup" THEN "cleanup_exit" ELSE "done"

\* stop() from "with self.lock" to the test that decides whether to join:
\* the guard, mixer.music.stop() and event.set(); without a live thread the
\* three assignments follow at once.  op names the call the stop belongs to
StopBegin(c, op) ==
  /\ CanAcquire(Caller(c))
  /\ lock' = lock \cup {Caller(c)}
  /\ LET entry == [call[c] EXCEPT !.op = op, !.pre = Snapshot] IN
     IF (is_playing \/ is_paused) /\ MixerUp
     THEN /\ mixer' = [mixer EXCEPT !.status = "stopped"]
          /\ thread_stop_event' = TRUE
          /\ IF progress_thread # NoThread /\ Alive(progress_thread)
             THEN /\ call' = [call EXCEPT ![c] =
                       [entry EXCEPT !.pc = "stop_join"]]
                  /\ UNCHANGED <<is_playing, is_paused, progress>>
             ELSE /\ StopReset
                  /\ call' = [call EXCEPT ![c] =
                       [entry EXCEPT !.pc = AfterStop(op)]]
     ELSE /\ call' = [call EXCEPT ![c] = [entry EXCEPT !.pc = AfterStop(op)]]
          /\ UNCHANGED <<mixer, thread_stop_event, is_playing, is_paused,
                         progress>>
  /\ UNCHANGED <<current_song, song_length, start_time, progress_thread, now,
                 tpc>>
  /\ UNCHANGED outside

\* stop() called by a client, or by a play() that found the session active
Stop(c) ==
  /\ call[c].pc \in {"idle", "stop_enter"}
  /\ StopBegin(c, IF call[c].pc = "idle" THEN "stop" ELSE call[c].op)

\* a skip that writes its log line and stops nothing
SkipOnlyLogs(c) ==
  /\ call[c].pc = "idle"
  /\ CanAcquire(Caller(c))
  /\ call' = [call EXCEPT ![c] =
       [IdleCall EXCEPT !.pc = "done", !.op = "skip", !.pre = Snapshot]]
  /\ UNCHANGED <<session, progress_thread, thread_stop_event, lock, mixer,
                 now, tpc>>
  /\ UNCHANGED outside

\* skip(): the log line, then stop()
Skip(c) ==
  /\ call[c].pc = "idle"
  /\ StopBegin(c, "skip")

\* stop(): progress_thread.join(timeout=1.0) returns, because the thread has
\* exited or because the timeout has run out, and the three assignments
StopJoin(c) ==
  /\ call[c].pc = "stop_join"
  /\ StopReset
  /\ call' = [call EXCEPT ![c].pc = AfterStop(call[c].op)]
  /\ UNCHANGED <<current_song, song_length, start_time, progress_thread,
                 thread_stop_event, lock, mixer, now, tpc>>
  /\ UNCHANGED outside

\* ---- get_progress -------------------------------------------------------
GetProgressEnter(c) ==
  /\ call[c].pc = "idle"
  /\ CanAcquire(Caller(c))
  /\ lock' = lock \cup {Caller(c)}
  /\ call' = [call EXCEPT ![c] =
       [IdleCall EXCEPT !.pc = "read_flag", !.op = "get_progress",
                        !.pre = Snapshot]]
  /\ UNCHANGED <<session, progress_thread, thread_stop_event, mixer, now, tpc>>
  /\ UNCHANGED outside

\* get_progress(): the three components of the returned tuple, read in order
GetProgressRead(c) ==
  /\ call[c].pc \in {"read_flag", "read_progress", "read_song"}
  /\ call' = [call EXCEPT ![c] =
       IF @.pc = "read_flag"
       THEN [@ EXCEPT !.pc = "read_progress",
                      !.view = <<ActivelyPlaying, @[2], @[3]>>]
       ELSE IF @.pc = "read_progress"
       THEN [@ EXCEPT !.pc = "read_song", !.view = <<@[1], progress, @[3]>>]
       ELSE [@ EXCEPT !.pc = "done", !.view = <<@[1], @[2], current_song>>]]
  /\ UNCHANGED <<session, progress_thread, thread_stop_event, lock, mixer,
                 now, tpc>>
  /\ UNCHANGED outside

\* ---- set_volume -----------------------------------------------------------
\* set_volume(target_volume): the lock and the call of the mixer
SetVolume(c, v) ==
  /\ call[c].pc = "idle"
  /\ CanAcquire(Caller(c))
  /\ lock' = lock \cup {Caller(c)}
  /\ mixer' = IF MixerUp THEN [mixer EXCEPT !.volume = MixerSetVolume(@, v)]
              ELSE mixer
  /\ call' = [call EXCEPT ![c] =
       [IdleCall EXCEPT !.pc = "done", !.op = "set_volume", !.num = v,
                        !.pre = Snapshot]]
  /\ UNCHANGED <<session, progress_thread, thread_stop_event, now, tpc>>
  /\ UNCHANGED outside

\* ---- set_progress ---------------------------------------------------------
\* a set_progress that seeks: it moves start_time to match the value it sets
SetProgressSeeks(c, x) ==
  /\ call[c].pc = "idle"
  /\ CanAcquire(Caller(c))
  /\ lock' = lock \cup {Caller(c)}
  /\ progress' = IF ~is_playing \/ is_paused THEN progress
                 ELSE ClampProgress(x)
  /\ start_time' = IF ~is_playing \/ is_paused THEN start_time
                   ELSE now - ((ClampProgress(x) * song_length) \div 100)
  /\ call' = [call EXCEPT ![c] =
       [IdleCall EXCEPT !.pc = "done", !.op = "set_progress", !.num = x,
                        !.pre = Snapshot]]
  /\ UNCHANGED <<current_song, is_playing, is_paused, song_length,
                 progress_thread, thread_stop_event, mixer, now, tpc>>
  /\ UNCHANGED outside

\* set_progress(percentage): the lock, the early return, the clamp and the
\* write of progress
SetProgress(c, x) ==
  /\ call[c].pc = "idle"
  /\ CanAcquire(Caller(c))
  /\ lock' = lock \cup {Caller(c)}
  /\ progress' = IF ~is_playing \/ is_paused THEN progress
                 ELSE ClampProgress(x)
  /\ call' = [call EXCEPT ![c] =
       [IdleCall EXCEPT !.pc = "done", !.op = "set_progress", !.num = x,
                        !.pre = Snapshot]]
  /\ UNCHANGED <<current_song, is_playing, is_paused, song_length, start_time,
                 progress_thread, thread_stop_event, mixer, now, tpc>>
  /\ UNCHANGED outside

\* ---- cleanup --------------------------------------------------------------
\* cleanup(): the call of self.stop()
Cleanup(c) ==
  /\ call[c].pc = "idle"
  /\ StopBegin(c, "cleanup")

\* cleanup(): stop() returns, which leaves its "with self.lock" block and
\* drops its locals
CleanupRelease(c) ==
  /\ call[c].pc = "cleanup_exit"
  /\ lock' = lock \ {Caller(c)}
  /\ call' = [call EXCEPT ![c] =
       [IdleCall EXCEPT !.pc = "cleanup_quit", !.op = "cleanup"]]
  /\ UNCHANGED <<session, progress_thread, thread_stop_event, mixer, now, tpc>>
  /\ UNCHANGED outside

\* cleanup(): pygame.mixer.quit(), which stops the music and closes the
\* device, and the return
CleanupQuit(c) ==
  /\ call[c].pc = "cleanup_quit"
  /\ mixer' = [mixer EXCEPT !.status = "quit"]
  /\ call' = [call EXCEPT ![c] = IdleCall]
  /\ UNCHANGED <<session, progress_thread, thread_stop_event, lock, now, tpc>>
  /\ UNCHANGED outside

\* ---- _track_progress ----------------------------------------------------
\* a loop that takes the lock before it goes to sleep
TrackCheckLocked(t) ==
  /\ tpc[t] = "check"
  /\ thread_stop_event \/ CanAcquire(Tracker(t))
  /\ tpc' = [tpc EXCEPT ![t] = IF thread_stop_event THEN "none" ELSE "sleep"]
  /\ lock' = IF thread_stop_event THEN lock ELSE lock \cup {Tracker(t)}
  /\ UNCHANGED <<session, progress_thread, thread_stop_event, mixer, now,
                 call>>
  /\ UNCHANGED outside

\* the loop test: while not self.thread_stop_event.is_set()
TrackCheck(t) ==
  /\ tpc[t] = "check"
  /\ tpc' = [tpc EXCEPT ![t] = IF thread_stop_event THEN "none" ELSE "sleep"]
  /\ UNCHANGED <<session, progress_thread, thread_stop_event, lock, mixer,
                 now, call>>
  /\ UNCHANGED outside

\* time.sleep(1.0) is over and "with self.lock" is entered
TrackAcquire(t) ==
  /\ tpc[t] = "sleep"
  /\ CanAcquire(Tracker(t))
  /\ lock' = lock \cup {Tracker(t)}
  /\ tpc' = [tpc EXCEPT ![t] = "locked"]
  /\ UNCHANGED <<session, progress_thread, thread_stop_event, mixer, now,
                 call>>
  /\ UNCHANGED outside

\* a tracker that ends the session when the song is over
TrackUpdateAutoStop(t) ==
  /\ tpc[t] = "locked"
  /\ lock' = lock \ {Tracker(t)}
  /\ IF TrackerSkips
     THEN /\ tpc' = [tpc EXCEPT ![t] = "check"]
          /\ UNCHANGED <<current_song, is_playing, progress, mixer>>
     ELSE /\ progress' = ProgressAt(now, start_time, song_length)
          /\ tpc' = [tpc EXCEPT ![t] = "none"]
          /\ IF progress' >= 100
             THEN /\ is_playing' = FALSE
                  /\ current_song' = NoSong
                  /\ mixer' = [mixer EXCEPT !.status = "stopped"]
             ELSE UNCHANGED <<current_song, is_playing, mixer>>
  /\ UNCHANGED <<is_paused, song_length, start_time, progress_thread,
                 thread_stop_event, now, call>>
  /\ UNCHANGED outside

\* the body under the lock: "continue", or the update of progress followed
\* by "return self.progress", which ends the thread
TrackUpdate(t) ==
  /\ tpc[t] = "locked"
  /\ lock' = lock \ {Tracker(t)}
  /\ IF TrackerSkips
     THEN /\ tpc' = [tpc EXCEPT ![t] = "check"]
          /\ UNCHANGED progress
     ELSE /\ progress' = ProgressAt(now, start_time, song_length)
          /\ tpc' = [tpc EXCEPT ![t] = "none"]
  /\ UNCHANGED <<current_song, is_playing, is_paused, song_length, start_time,
                 progress_thread, thread_stop_event, mixer, now, call>>
  /\ UNCHANGED outside

Next ==
  \/ Tick
  \/ \E c \in Callers, s \in Songs : PlayEnter(c, s)
  \/ \E c \in Callers : PlayBody(c)
  \/ \E c \in Callers : PauseEnter(c)
  \/ \E c \in Callers : PauseCalc(c)
  \/ \E c \in Callers : Resume(c)
  \/ \E c \in Callers : Stop(c)
  \/ \E c \in Callers : Skip(c)
  \/ \E c \in Callers : StopJoin(c)
  \/ \E c \in Callers : GetProgressEnter(c)
  \/ \E c \in Callers : GetProgressRead(c)
  \/ \E c \in Callers : Return(c)
  \/ \E t \in Threads : TrackCheck(t)
  \/ \E t \in Threads : TrackAcquire(t)
  \/ \E t \in Threads : TrackUpdate(t)

Spec == Init /\ [][Next]_vars

\* the player with nothing but volume requests
VolumeArgs == (0 - VolumeSlack) .. (100 + VolumeSlack)

NextVolume ==
  \/ \E c \in Callers, v \in VolumeArgs : SetVolume(c, v)
  \/ \E c \in Callers : Return(c)

SpecVolume == Init /\ [][NextVolume]_vars

\* the operations of Next that write the session or the mixer: all but
\* get_progress
NextWriters ==
  \/ Tick
  \/ \E c \in Callers, s \in Songs : PlayEnter(c, s)
  \/ \E c \in Callers : PlayBody(c)
  \/ \E c \in Callers : PauseEnter(c)
  \/ \E c \in Callers : PauseCalc(c)
  \/ \E c \in Callers : Resume(c)
  \/ \E c \in Callers : Stop(c)
  \/ \E c \in Callers : Skip(c)
  \/ \E c \in Callers : StopJoin(c)
  \/ \E c \in Callers : Return(c)
  \/ \E t \in Threads : TrackCheck(t)
  \/ \E t \in Threads : TrackAcquire(t)
  \/ \E t \in Threads : TrackUpdate(t)

\* the scheduling of the threads: a tracking thread that can take its next
\* step takes it, one that waits for the lock gets it if the lock is free
\* again and again, and a call that is under way runs to its return.  When
\* a client makes its next call is left open
Fairness ==
  /\ \A t \in Threads :
       /\ WF_vars(TrackCheck(t))
       /\ SF_vars(TrackAcquire(t))
       /\ WF_vars(TrackUpdate(t))
  /\ \A c \in Callers :
       WF_vars(PlayBody(c) \/ PauseCalc(c) \/ StopJoin(c) \/ Return(c))

SpecFair == Init /\ [][NextWriters]_vars /\ Fairness

\* the player with cleanup().  cleanup() is called by stop_server, which
\* ends the process with os._exit(0): once the device is released, only the
\* cleanup() calls that are under way go on
NextControl ==
  \/ MixerUp /\ NextWriters
  \/ \E c \in Callers : Cleanup(c)
  \/ \E c \in Callers : CleanupRelease(c)
  \/ \E c \in Callers : CleanupQuit(c)

SpecControl == Init /\ [][NextControl]_vars

\* the values set_progress is called with
ProgressArgs == {0 - VolumeSlack, 50, 100 + VolumeSlack}

\* the player with set_progress()
NextProgress ==
  \/ NextWriters
  \/ \E c \in Callers, x \in ProgressArgs : SetProgress(c, x)

SpecProgress == Init /\ [][NextProgress]_vars

\* ---- floating point ------------------------------------------------------
\* A float is <<m, e>>, the number m * 2^e with a significand m of FloatBits
\* bits (2^(FloatBits-1) <= |m| < 2^FloatBits), or Zero.  Every operation
\* returns the float nearest to the exact result, ties to the even
\* significand, as IEEE 754 arithmetic does with 53 bits.
RECURSIVE Pow2(_)
Pow2(n) == IF n = 0 THEN 1 ELSE 2 * Pow2(n - 1)

Zero == <<0, 0>>

\* the E with 2^E <= num / den < 2^(E+1), for num, den > 0
RECURSIVE ExpOf(_, _)
ExpOf(num, den) ==
  IF num >= 2 * den THEN ExpOf(num, 2 * den) + 1
  ELSE IF num < den THEN ExpOf(2 * num, den) - 1
  ELSE 0

\* n / d rounded to the nearest integer, ties to even
RoundHalfEven(n, d) ==
  LET q == n \div d
      r == n % d
  IN IF 2 * r > d \/ (2 * r = d /\ q % 2 = 1) THEN q + 1 ELSE q

\* a significand that rounding has carried to 2^FloatBits
Normal(m, e) ==
  IF m = Pow2(FloatBits) THEN <<Pow2(FloatBits - 1), e + 1>> ELSE <<m, e>>

\* the float nearest to num / den, for num, den > 0
FlRound(num, den) ==
  LET e == ExpOf(num, den) - (FloatBits - 1)
      m == IF e >= 0 THEN RoundHalfEven(num, den * Pow2(e))
                     ELSE RoundHalfEven(num * Pow2(0 - e), den)
  IN Normal(m, e)

\* the float nearest to num / den, for den > 0
Fl(num, den) ==
  IF num = 0 THEN Zero
  ELSE IF num > 0 THEN FlRound(num, den)
  ELSE LET r == FlRound(0 - num, den) IN <<0 - r[1], r[2]>>

\* the float nearest to m * 2^e
FlScaled(m, e) == IF e >= 0 THEN Fl(m * Pow2(e), 1) ELSE Fl(m, Pow2(0 - e))

FlAdd(x, y) ==
  LET e == Min(x[2], y[2])
  IN FlScaled(x[1] * Pow2(x[2] - e) + y[1] * Pow2(y[2] - e), e)

FlMul(x, y) == FlScaled(x[1] * y[1], x[2] + y[2])

\* x / y for y # Zero
FlDiv(x, y) ==
  LET d == x[2] - y[2]
      num == IF d >= 0 THEN x[1] * Pow2(d) ELSE x[1]
      den == IF d >= 0 THEN y[1] ELSE y[1] * Pow2(0 - d)
  IN IF den > 0 THEN Fl(num, den) ELSE Fl(0 - num, 0 - den)

\* the square root of x >= Zero: with x = n * 4^h, the m * 2^e nearest to
\* sqrt(n), found by comparing squares (a square root is never a tie)
FlSqrt(x) ==
  IF x = Zero THEN Zero
  ELSE LET odd == x[2] % 2 = 1
           n == IF odd THEN 2 * x[1] ELSE x[1]
           h == (IF odd THEN x[2] - 1 ELSE x[2]) \div 2
           e == (ExpOf(n, 1) \div 2) - (FloatBits - 1)
           s == Pow2(0 - e) * Pow2(0 - e)
           m == CHOOSE k \in Pow2(FloatBits - 1) .. Pow2(FloatBits) :
                  /\ (2 * k - 1) * (2 * k - 1) <= 4 * n * s
                  /\ 4 * n * s < (2 * k + 1) * (2 * k + 1)
       IN Normal(m, e + h)

FlLess(x, y) ==
  LET e == Min(x[2], y[2])
  IN x[1] * Pow2(x[2] - e) < y[1] * Pow2(y[2] - e)

One == Fl(1, 1)

\* ---- cosine_similarity ---------------------------------------------------
\* np.array(vec): the components as floats
AsArray(vec) == [i \in DOMAIN vec |-> Fl(vec[i], 1)]

\* np.dot(v1, v2) on arrays of equal length
RECURSIVE DotUpTo(_, _, _)
DotUpTo(v1, v2, n) ==
  IF n = 0 THEN Zero
  ELSE FlAdd(DotUpTo(v1, v2, n - 1), FlMul(v1[n], v2[n]))

Dot(v1, v2) == DotUpTo(v1, v2, Len(v1))

\* np.linalg.norm(v), which is sqrt(dot(v, v))
Norm(v) == FlSqrt(Dot(v, v))

\* a similarity that is not divided by the norms
CosineSimilarityUnnormalised(vec1, vec2) ==
  LET v1 == AsArray(vec1)
      v2 == AsArray(vec2)
  IN IF Norm(v1) = Zero \/ Norm(v2) = Zero THEN Zero ELSE Dot(v1, v2)

\* cosine_similarity(vec1, vec2)
CosineSimilarity(vec1, vec2) ==
  LET v1 == AsArray(vec1)
      v2 == AsArray(vec2)
      dot_product == Dot(v1, v2)
      norm1 == Norm(v1)
      norm2 == Norm(v2)
  IN IF norm1 = Zero \/ norm2 = Zero THEN Zero
     ELSE FlDiv(dot_product, FlMul(norm1, norm2))

\* the vectors a call is made with
Vectors == [1..VecDim -> (0 - MaxCoord) .. MaxCoord]

\* a caller has picked two vectors
SimInit ==
  /\ PlayerInit
  /\ lib = NoLibrary
  /\ mm = IdleMatch
  /\ req = NoRequest
  /\ sim \in {[IdleSim EXCEPT !.vec1 = a, !.vec2 = b] : a, b \in Vectors}

\* the call and its return value
SimCall ==
  /\ sim.pc = "idle"
  /\ sim' = [sim EXCEPT !.pc = "done",
                        !.result = CosineSimilarity(sim.vec1, sim.vec2)]
  /\ UNCHANGED <<player, lib, mm, req>>

SpecSim == SimInit /\ [][SimCall]_vars

\* ---- match_music ----------------------------------------------------------
\* the texts the embedding provider is asked about: the query built from
\* environment and mood, and the feature line built from a song
Queries == {<<"cafe", "relaxed">>, <<"street", "lively">>}
Features ==
  {[rhythm |-> "slow", mood |-> "calm"], [rhythm |-> "fast", mood |-> "lively"],
   [rhythm |-> "slow", mood |-> "sad"]}

\* the line built from song['features'] for the provider
SongFeatures(song) == <<song.features.rhythm, song.features.mood>>

\* response_data["data"][0]["embedding"]: the provider's vector for a text
EmbeddingOf(text) ==
  CASE text = <<"cafe", "relaxed">> -> <<2, 0>>
    [] text = <<"street", "lively">> -> <<1, 1>>
    [] text = <<"slow", "calm">> -> <<2, 1>>
    [] text = <<"fast", "lively">> -> <<1, 2>>
    [] text = <<"slow", "sad">> -> <<-1, 0>>

\* a well-formed record of the library
Song(title, features) ==
  [title |-> title, type |-> "local", link |-> "file", features |-> features]

\* the library files match_music may find: none, or a valid array of up to
\* MaxSongs well-formed records
LibraryFiles ==
  {NoLibrary} \cup
  {[exists |-> TRUE, songs |-> [i \in 1..n |-> Song(i, fs[i])]] :
     n \in 0..MaxSongs, fs \in [1..MaxSongs -> Features]}

TopNs == (0 - 1) .. (MaxSongs + 1)

\* a caller has picked the arguments of match_music
MatchInit ==
  /\ PlayerInit
  /\ sim = IdleSim
  /\ req = NoRequest
  /\ lib \in LibraryFiles
  /\ mm \in {[IdleMatch EXCEPT !.query = q, !.api_key = key, !.top_n = k] :
               q \in Queries, key \in {"", "key"}, k \in TopNs}

\* a load that takes a missing file for an empty library
LoadErrorNever(file) == "none"

\* load_music_library on a file of well-formed records: the exception it
\* raises, if any
LoadError(file) == IF ~file.exists THEN "FileNotFoundError" ELSE "none"

\* music_library = load_music_library(lib_path)
MatchLoad ==
  /\ mm.pc = "idle"
  /\ mm' = IF LoadError(lib) # "none"
           THEN [mm EXCEPT !.pc = "raised", !.error = LoadError(lib)]
           ELSE [mm EXCEPT !.pc = "embed_query", !.library = lib.songs]
  /\ UNCHANGED <<player, lib, sim, req>>

\* the ways a get_embedding call ends: with the vector, with the ValueError
\* of an empty api_key, or with a failed request.  The handlers of a failed
\* request evaluate "raise RuntimeError(...) from e [4][5]", and subscripting
\* the exception e raises TypeError
EmbeddingOutcomes(key) == IF key = "" THEN {"ValueError"} ELSE {"ok", "TypeError"}

\* a caller that swallows the exception and ranks what it has
EmbeddingFailedSkips(m, err) ==
  [m EXCEPT !.pc = "rank", !.calls = @ + 1, !.failed_at = m.calls + 1]

\* an exception of get_embedding leaves match_music, which has no handler
EmbeddingFailed(m, err) ==
  [m EXCEPT !.pc = "raised", !.error = err, !.calls = @ + 1,
            !.failed_at = m.calls + 1]

\* a loop that asks for the embedding of the query again with every song
EmbeddingAskedAgain(m, text) == m.asked \o <<m.query, text>>

\* the texts get_embedding has answered so far, with one more
EmbeddingAsked(m, text) == Append(m.asked, text)

\* query_embedding = get_embedding(query, api_key)
MatchEmbedQuery ==
  /\ mm.pc = "embed_query"
  /\ \E out \in EmbeddingOutcomes(mm.api_key) :
       mm' = IF out = "ok"
             THEN [mm EXCEPT !.pc = IF mm.library = <<>> THEN "rank" ELSE "loop",
                             !.calls = @ + 1,
                             !.asked = Append(@, mm.query),
                             !.query_embedding = EmbeddingOf(mm.query)]
             ELSE EmbeddingFailed(mm, out)
  /\ UNCHANGED <<player, lib, sim, req>>

\* one pass of the loop over music_library: the embedding of the song's
\* features, the similarity, matches.append
MatchEmbedSong ==
  /\ mm.pc = "loop"
  /\ LET song == mm.library[Len(mm.matches) + 1] IN
     \E out \in EmbeddingOutcomes(mm.api_key) :
       mm' = IF out = "ok"
             THEN [mm EXCEPT
                     !.pc = IF Len(mm.matches) + 1 = Len(mm.library)
                            THEN "rank" ELSE "loop",
                     !.calls = @ + 1,
                     !.asked = EmbeddingAsked(mm, SongFeatures(song)),
                     !.matches = Append(@, <<song,
                        CosineSimilarity(mm.query_embedding,
                                         EmbeddingOf(SongFeatures(song)))>>)]
             ELSE EmbeddingFailed(mm, out)
  /\ UNCHANGED <<player, lib, sim, req>>

\* an insertion that puts x ahead of the entries of equal score
RECURSIVE InsertDescAhead(_, _)
InsertDescAhead(sorted, x) ==
  IF sorted = <<>> THEN <<x>>
  ELSE IF ~FlLess(x[2], Head(sorted)[2]) THEN <<x>> \o sorted
  ELSE <<Head(sorted)>> \o InsertDescAhead(Tail(sorted), x)

\* x put into a list sorted by score descending, behind every entry whose
\* score is not smaller
RECURSIVE InsertDesc(_, _)
InsertDesc(sorted, x) ==
  IF sorted = <<>> THEN <<x>>
  ELSE IF FlLess(Head(sorted)[2], x[2]) THEN <<x>> \o sorted
  ELSE <<Head(sorted)>> \o InsertDesc(Tail(sorted), x)

\* matches.sort(key=lambda x: x[1], reverse=True): list.sort is stable, and
\* with reverse=True entries of equal key still keep their order
RECURSIVE SortDesc(_)
SortDesc(ms) ==
  IF ms = <<>> THEN <<>>
  ELSE InsertDesc(SortDesc(SubSeq(ms, 1, Len(ms) - 1)), ms[Len(ms)])

\* matches[:max(1, top_n)]
TopSlice(ms, top_n) == SubSeq(ms, 1, Min(Len(ms), Max(1, top_n)))

\* the sort, the print of matches[0], which raises IndexError on an empty
\* list, and the return statement (mm.matches keeps the order of the loop)
MatchRank ==
  /\ mm.pc = "rank"
  /\ LET sorted == SortDesc(mm.matches) IN
       mm' = IF sorted = <<>>
             THEN [mm EXCEPT !.pc = "raised", !.error = "IndexError"]
             ELSE [mm EXCEPT !.pc = "returned",
                             !.result = TopSlice(sorted, mm.top_n)]
  /\ UNCHANGED <<player, lib, sim, req>>

NextMatch == MatchLoad \/ MatchEmbedQuery \/ MatchEmbedSong \/ MatchRank

SpecMatch == MatchInit /\ [][NextMatch]_vars

\* ---- the library writer and the manager's routes -------------------------
\* str.strip() on the texts a request may carry
Strip(text) ==
  CASE text = " " -> ""
    [] text = " b" -> "b"
    [] text = " online" -> "online"
    [] OTHER -> text

\* Path(link).as_posix() on the links a request may carry
AsPosix(link) ==
  CASE link = "./a.mp3" -> "a.mp3"
    [] link = "" -> "."
    [] OTHER -> link

\* s without its i-th element
RemoveAt(s, i) == SubSeq(s, 1, i - 1) \o SubSeq(s, i + 1, Len(s))

\* the index of the first record with the title, 0 if there is none
FirstWithTitle(songs, title) ==
  IF \E i \in 1..Len(songs) : songs[i].title = title
  THEN CHOOSE i \in 1..Len(songs) :
         /\ songs[i].title = title
         /\ \A j \in 1..(i - 1) : songs[j].title # title
  ELSE 0

\* write_new_music: the list it writes, or the exception it raises
WriteNewMusic(songs, title, type, link, rhythm, mood) ==
  IF type \in {"local", "online"}
  THEN [error |-> "none",
        songs |-> Append(songs,
          [title |-> title, type |-> type,
           link |-> IF type = "local" THEN AsPosix(link) ELSE link,
           features |-> [rhythm |-> rhythm, mood |-> mood]])]
  ELSE [error |-> "TypeError", songs |-> songs]

\* an edit that leaves the record where it was
EditLibraryInPlace(songs, target_title, new_title, new_type, new_link, new_rhythm, new_mood) ==
  LET i == FirstWithTitle(songs, target_title)
      old == songs[i]
      type == IF new_type # "" THEN new_type ELSE old.type
      edited ==
        [title |-> IF new_title # "" THEN new_title ELSE old.title,
         type |-> type,
         link |-> IF new_link = "" THEN old.link
                  ELSE IF type = "local" THEN AsPosix(new_link) ELSE new_link,
         features |->
           [rhythm |-> IF new_rhythm # "" THEN new_rhythm
                       ELSE old.features.rhythm,
            mood |-> IF new_mood # "" THEN new_mood ELSE old.features.mood]]
  IN IF i = 0 THEN [error |-> "FileNotFoundError", songs |-> songs]
     ELSE IF new_link # "" /\ type \notin {"local", "online"}
     THEN [error |-> "TypeError", songs |-> songs]
     ELSE [error |-> "none", songs |-> [songs EXCEPT ![i] = edited]]

\* edit_library: the list it writes, or the exception it raises before it
\* writes
EditLibrary(songs, target_title, new_title, new_type, new_link, new_rhythm, new_mood) ==
  LET i == FirstWithTitle(songs, target_title)
      old == songs[i]
      type == IF new_type # "" THEN new_type ELSE old.type
      edited ==
        [title |-> IF new_title # "" THEN new_title ELSE old.title,
         type |-> type,
         link |-> IF new_link = "" THEN old.link
                  ELSE IF type = "local" THEN AsPosix(new_link) ELSE new_link,
         features |->
           [rhythm |-> IF new_rhythm # "" THEN new_rhythm
                       ELSE old.features.rhythm,
            mood |-> IF new_mood # "" THEN new_mood ELSE old.features.mood]]
  IN IF i = 0 THEN [error |-> "FileNotFoundError", songs |-> songs]
     ELSE IF new_link # "" /\ type \notin {"local", "online"}
     THEN [error |-> "TypeError", songs |-> songs]
     ELSE [error |-> "none", songs |-> Append(RemoveAt(songs, i), edited)]

\* a delete that, finding no record with the title, drops the last one
DeleteSongLast(songs, target_title) ==
  LET i == FirstWithTitle(songs, target_title)
  IN IF i = 0 THEN [error |-> "none", songs |-> SubSeq(songs, 1, Len(songs) - 1)]
     ELSE [error |-> "none", songs |-> RemoveAt(songs, i)]

\* delete_song: the list it writes, or the exception it raises
DeleteSong(songs, target_title) ==
  LET i == FirstWithTitle(songs, target_title)
  IN IF i = 0 THEN [error |-> "FileNotFoundError", songs |-> songs]
     ELSE [error |-> "none", songs |-> RemoveAt(songs, i)]

\* the status of the response to a request whose writer call ended with
\* error
StatusOf(error) ==
  CASE error = "none" -> 200
    [] error = "FileNotFoundError" -> 404
    [] OTHER -> 500

\* the fields a request may carry
RawTitles == {"a", " b", " ", ""}
RawTypes == {"local", " online", "radio", ""}
RawLinks == {"./a.mp3", ""}
RawRhythms == {"", "slow"}
RawMoods == {""}

\* a manager that lets every type through
ValidTypeAny(type) == TRUE

\* type in ['local', 'online']
ValidType(type) == type \in {"local", "online"}

\* POST /api/add_song: the path check, the stripped fields, the three field
\* checks, write_new_music and the response
AddSong(title, type, link, rhythm, mood) ==
  /\ Len(lib.songs) < MaxRecords
  /\ LET out == WriteNewMusic(lib.songs, Strip(title), Strip(type),
                              Strip(link), Strip(rhythm), Strip(mood))
         bad == \/ ~lib.exists \/ Strip(title) = "" \/ Strip(link) = ""
                \/ ~ValidType(Strip(type))
     IN /\ lib' = IF bad THEN lib ELSE [lib EXCEPT !.songs = out.songs]
        /\ req' = [op |-> "add_song",
                   status |-> IF bad THEN 400 ELSE StatusOf(out.error)]
  /\ UNCHANGED <<player, mm, sim>>

\* POST /api/edit_song: the path check, the stripped fields, the two field
\* checks, edit_library and the response
UpdateSong(target_title, new_title, new_type, new_link, new_rhythm, new_mood) ==
  LET out == EditLibrary(lib.songs, Strip(target_title), Strip(new_title),
                         Strip(new_type), Strip(new_link), Strip(new_rhythm),
                         Strip(new_mood))
      bad == \/ ~lib.exists \/ Strip(target_title) = ""
             \/ (Strip(new_type) # "" /\ ~ValidType(Strip(new_type)))
  IN /\ lib' = IF bad THEN lib ELSE [lib EXCEPT !.songs = out.songs]
     /\ req' = [op |-> "edit_song",
                status |-> IF bad THEN 400 ELSE StatusOf(out.error)]
     /\ UNCHANGED <<player, mm, sim>>

\* POST /api/delete_song: the path check, the stripped title, delete_song
\* and the response
RemoveSong(title) ==
  LET out == DeleteSong(lib.songs, Strip(title))
      bad == ~lib.exists \/ Strip(title) = ""
  IN /\ lib' = IF bad THEN lib ELSE [lib EXCEPT !.songs = out.songs]
     /\ req' = [op |-> "delete_song",
                status |-> IF bad THEN 400 ELSE StatusOf(out.error)]
     /\ UNCHANGED <<player, mm, sim>>

\* the manager starts on no library file, or on an empty array
LibraryInit ==
  /\ PlayerInit
  /\ mm = IdleMatch
  /\ sim = IdleSim
  /\ req = NoRequest
  /\ lib \in {NoLibrary, [exists |-> TRUE, songs |-> <<>>]}

NextLibrary ==
  \/ \E title \in RawTitles, type \in RawTypes, link \in RawLinks,
        rhythm \in RawRhythms, mood \in RawMoods :
        AddSong(title, type, link, rhythm, mood)
  \/ \E target_title, new_title \in RawTitles, new_type \in RawTypes,
        new_link \in RawLinks, new_rhythm \in RawRhythms,
        new_mood \in RawMoods :
        UpdateSong(target_title, new_title, new_type, new_link, new_rhythm,
                   new_mood)
  \/ \E title \in RawTitles : RemoveSong(title)

SpecLibrary == LibraryInit /\ [][NextLibrary]_vars

\* ---- the writer called directly -------------------------------------------
\* the records a library file may hold, a type that is neither local nor
\* online included
FileRecords ==
  {[title |-> title, type |-> type, link |-> "a.mp3",
    features |-> [rhythm |-> "slow", mood |-> "calm"]] :
     title \in {"a", "b"}, type \in {"local", "online", "radio"}}

\* the library files with up to MaxRecords records
WriterFiles ==
  {[exists |-> TRUE, songs |-> songs] :
     songs \in UNION {[1..n -> FileRecords] : n \in 0..MaxRecords}}

\* the arguments of the writer's functions
TargetTitles == {"a", "b", "c"}
NewTitles == {"", "c"}
NewTypes == {"", "online", "radio"}
NewLinks == {"", "./a.mp3"}
NewRhythms == {"", "fast"}

\* no call of the writer yet
NoWriterCall ==
  [op |-> "none", status |-> 0, error |-> "none", before |-> <<>>,
   target_title |-> "", new_title |-> "", new_type |-> "", new_link |-> "",
   new_rhythm |-> "", new_mood |-> ""]

WriterInit ==
  /\ PlayerInit
  /\ mm = IdleMatch
  /\ sim = IdleSim
  /\ req = NoWriterCall
  /\ lib \in WriterFiles

\* edit_library(lib_path, target_title, ...): the file afterwards and the
\* exception, if any
WriterEdit(target_title, new_title, new_type, new_link, new_rhythm) ==
  /\ req.op = "none"
  /\ LET out == EditLibrary(lib.songs, target_title, new_title, new_type,
                            new_link, new_rhythm, "")
     IN /\ lib' = [lib EXCEPT !.songs = out.songs]
        /\ req' = [NoWriterCall EXCEPT
                     !.op = "edit_library", !.status = StatusOf(out.error),
                     !.error = out.error, !.before = lib.songs,
                     !.target_title = target_title, !.new_title = new_title,
                     !.new_type = new_type, !.new_link = new_link,
                     !.new_rhythm = new_rhythm]
  /\ UNCHANGED <<player, mm, sim>>

\* delete_song(lib_path, target_title): the file afterwards and the
\* exception, if any
WriterDelete(target_title) ==
  /\ req.op = "none"
  /\ LET out == DeleteSong(lib.songs, target_title)
     IN /\ lib' = [lib EXCEPT !.songs = out.songs]
        /\ req' = [NoWriterCall EXCEPT
                     !.op = "delete_song", !.status = StatusOf(out.error),
                     !.error = out.error, !.before = lib.songs,
                     !.target_title = target_title]
  /\ UNCHANGED <<player, mm, sim>>

NextWriter ==
  \/ \E target_title \in TargetTitles, new_title \in NewTitles,
        new_type \in NewTypes, new_link \in NewLinks,
        new_rhythm \in NewRhythms :
        WriterEdit(target_title, new_title, new_type, new_link, new_rhythm)
  \/ \E target_title \in TargetTitles : WriterDelete(target_title)

SpecWriter == WriterInit /\ [][NextWriter]_vars

\* ---- POST /api/analyse ----------------------------------------------------
\* the status of the response Flask builds when a view returns None: None is
\* no valid response, the request ends in a TypeError and is answered with
\* "500 Internal Server Error"
NoneResponse == 500

\* the handler is between the vision call and its return statement
AnalyseUnderWay == req.op = "analyse" /\ req.status = 0

\* analyse_image_api up to the call of match_music: analyze_image returns the
\* environment and the mood, or raises RuntimeError, which the handler's
\* "except Exception" answers with "return None"
AnalyseVision ==
  /\ ~AnalyseUnderWay
  /\ \/ /\ mm' = IdleMatch
        /\ req' = [op |-> "analyse", status |-> NoneResponse]
     \/ \E q \in Queries :
          /\ mm' = [IdleMatch EXCEPT !.query = q, !.api_key = "key",
                                     !.top_n = 1]
          /\ req' = [op |-> "analyse", status |-> 0]
  /\ UNCHANGED <<player, lib, sim>>

\* match_music has raised, which "except Exception" answers with "return
\* None", or it has returned an empty list, which is answered with 404
AnalyseNoSong ==
  /\ AnalyseUnderWay
  /\ mm.pc = "raised" \/ (mm.pc = "returned" /\ mm.result = <<>>)
  /\ req' = [req EXCEPT !.status =
               IF mm.pc = "raised" THEN NoneResponse ELSE 404]
  /\ UNCHANGED <<player, lib, mm, sim>>

\* success = player.play(recommended_song), with the first recommendation
AnalysePlay(c) ==
  /\ AnalyseUnderWay
  /\ mm.pc = "returned" /\ mm.result # <<>>
  /\ \A d \in Callers : call[d].op # "play"
  /\ PlayEnter(c, mm.result[1][1].type)

\* play() has returned: the end of its "with self.lock" block and the JSON
\* response with "success"
AnalyseRespond(c) ==
  /\ AnalyseUnderWay
  /\ call[c].pc = "done" /\ call[c].op = "play"
  /\ lock' = lock \ {Caller(c)}
  /\ call' = [call EXCEPT ![c] = IdleCall]
  /\ req' = [req EXCEPT !.status = 200]
  /\ UNCHANGED <<session, progress_thread, thread_stop_event, mixer, now, tpc>>
  /\ UNCHANGED <<lib, mm, sim>>

\* the server starts with a player, and with a library file or none
AnalyseInit ==
  /\ PlayerInit
  /\ sim = IdleSim
  /\ req = NoRequest
  /\ mm = IdleMatch
  /\ lib \in LibraryFiles

\* requests to /api/analyse, one after another, and the tracking threads
\* their play() calls start
NextAnalyse ==
  \/ AnalyseVision
  \/ AnalyseUnderWay /\ MatchLoad
  \/ AnalyseUnderWay /\ MatchEmbedQuery
  \/ AnalyseUnderWay /\ MatchEmbedSong
  \/ AnalyseUnderWay /\ MatchRank
  \/ AnalyseNoSong
  \/ \E c \in Callers : AnalysePlay(c)
  \/ \E c \in Callers : PlayBody(c)
  \/ \E c \in Callers : AnalyseRespond(c)
  \/ \E t \in Threads : TrackCheck(t)
  \/ \E t \in Threads : TrackAcquire(t)
  \/ \E t \in Threads : TrackUpdate(t)

SpecAnalyse == AnalyseInit /\ [][NextAnalyse]_vars

\* ---- claims --------------------------------------------------------------
Done(c, op) == call[c].pc = "done" /\ call[c].op = op
WasActive(c) == StateOf(call[c].pre) # "Idle"

\* C1: play(song) on a session that is Playing or Paused does not block on
\* the player's lock: the caller is never waiting, inside the stop() that
\* play() calls, for the lock it holds itself; and when such a play returns
\* success the state is Playing with currentSong = song and progress 0.
C1_PlayWhileActiveRestarts ==
  \A c \in Callers :
    (call[c].op = "play" /\ WasActive(c)) =>
      /\ ~(call[c].pc = "stop_enter" /\ Caller(c) \in lock)
      /\ (call[c].pc = "done" /\ call[c].ok) =>
            (State = "Playing" /\ current_song = call[c].arg /\ progress = 0)

\* C2: from Idle, play(song) of a local song that loads and probes returns
\* success, has started exactly one tracking thread (the one progress_thread
\* names, alive), has recorded time.time() as start_time, and leaves
\* Playing, currentSong = song, progress 0, so that get_progress would
\* return (true, 0, song).
C2_PlayFromIdle ==
  \A c \in Callers :
    (Done(c, "play") /\ ~WasActive(c) /\ SongType(call[c].arg) = "local"
       /\ call[c].env = "ok") =>
      /\ call[c].ok
      /\ call[c].spawned = 1
      /\ progress_thread # NoThread /\ Alive(progress_thread)
      /\ start_time = call[c].t
      /\ State = "Playing"
      /\ ViewOf(Snapshot) = <<TRUE, 0, call[c].arg>>

C2_Witness ==
  \E c \in Callers :
    /\ Done(c, "play") /\ call[c].env = "ok" /\ call[c].ok
    /\ State = "Playing" /\ current_song = call[c].arg
    /\ tpc[progress_thread] = "sleep"

\* C3: a stop() that found the session Playing or Paused leaves it Idle with
\* progress 0 and no current song: get_progress would return
\* (false, 0, null).
C3_StopClearsSession ==
  \A c \in Callers :
    (Done(c, "stop") /\ WasActive(c)) =>
      (State = "Idle" /\ ViewOf(Snapshot) = <<FALSE, 0, NoSong>>)

\* the session is Paused and the pause() that paused it has written progress
Frozen == State = "Paused" /\ \A c \in Callers : call[c].pc # "pause_calc"

\* C4: pause() on a Playing session leaves it Paused; while the session
\* stays Paused no step changes progress or current_song, tracker cycles
\* included, and every get_progress that returns meanwhile returns
\* (false, progress, current_song).
C4_PauseFreezes ==
  /\ [](\A c \in Callers :
          /\ (Done(c, "pause") /\ StateOf(call[c].pre) = "Playing") =>
               State = "Paused"
          /\ (Done(c, "get_progress") /\ Frozen) =>
               call[c].view = <<FALSE, progress, current_song>>)
  /\ [][(Frozen /\ Frozen') =>
          (progress' = progress /\ current_song' = current_song)]_vars

\* a tracker cycle is under way on a session paused at 0 < p < 100, after
\* the clock has moved on since the pause
C4_Witness ==
  /\ Frozen
  /\ 0 < progress /\ progress < 100
  /\ ProgressAt(now, start_time, song_length) > progress
  /\ \E t \in Threads : tpc[t] = "locked"

\* C5: resume() on a session Paused at p leaves it Playing with progress
\* still p and start_time = now - p/100 * song_length; the progress the
\* tracker or pause() computes from that start_time is p at the instant of
\* the resume, never below p later and non-decreasing in the clock; and no
\* step of a session that stays active lowers progress.
C5_ResumeContinues ==
  /\ [](\A c \in Callers :
          (Done(c, "resume") /\ StateOf(call[c].pre) = "Paused") =>
            LET p == call[c].pre.progress
                t0 == call[c].t
                At(t) == ProgressAt(t, start_time, song_length)
            IN /\ State = "Playing"
               /\ ViewOf(Snapshot) = <<TRUE, p, call[c].pre.song>>
               /\ start_time * 100 = t0 * 100 - p * song_length
               /\ At(t0) = p
               /\ \A t1 \in t0..MaxTime : \A t2 \in t1..MaxTime :
                    p <= At(t1) /\ At(t1) <= At(t2))
  /\ [][(is_playing /\ is_playing') => progress' >= progress]_vars

\* a resume of a session paused at 0 < p < 100 after the clock has moved on
\* during the pause
C5_Witness ==
  \E c \in Callers :
    /\ Done(c, "resume") /\ StateOf(call[c].pre) = "Paused"
    /\ 0 < call[c].pre.progress /\ call[c].pre.progress < 100
    /\ start_time > call[c].pre.start
    /\ now > call[c].t

\* C6: play(song) of an online song returns failure: the call is not stuck
\* inside play(), and when it returns the result is failure, the state is
\* Idle and it has started no tracking thread.
C6_OnlinePlayFails ==
  \A c \in Callers :
    (call[c].op = "play" /\ SongType(call[c].arg) = "online") =>
      /\ call[c].pc \in {"play_body", "done"}
      /\ call[c].pc = "done" =>
           (~call[c].ok /\ State = "Idle" /\ call[c].spawned = 0)

\* C7: a play(song) that reports failure leaves the session Idle with no
\* current song, the mixer not playing the failed song, and no tracking
\* thread started by the call.
C7_FailedPlayLeavesNothing ==
  \A c \in Callers :
    (Done(c, "play") /\ ~call[c].ok) =>
      /\ State = "Idle"
      /\ current_song = NoSong
      /\ ~(mixer.status = "playing" /\ mixer.song = call[c].arg)
      /\ call[c].spawned = 0

\* C8: when a stop() that found the session active returns, the thread
\* progress_thread names is no longer alive.
C8_StopJoinsTracker ==
  \A c \in Callers :
    (Done(c, "stop") /\ WasActive(c)) =>
      (progress_thread = NoThread \/ ~Alive(progress_thread))

\* C9: at most one tracking thread is alive, and a tracking thread that is
\* about to write progress is the one the current session started.
C9_SingleTracker ==
  /\ Cardinality(AliveThreads) <= 1
  /\ \A t \in Threads :
       (tpc[t] = "locked" /\ ~TrackerSkips) => t = progress_thread

\* the positions of a caller inside "with self.lock"
InsideLock(c) ==
  call[c].pc \in {"play_body", "pause_calc", "stop_join", "read_flag",
                  "read_progress", "read_song", "done"}

\* C10: the tuple get_progress returns is the view of the session as it was
\* when get_progress took the lock, and still is when it returns; at most
\* one thread is inside the lock and every thread part-way through an
\* operation or a tracker update is inside it.
C10_NoTornRead ==
  /\ Cardinality(lock) <= 1
  /\ \A c \in Callers : InsideLock(c) => Caller(c) \in lock
  /\ \A t \in Threads : tpc[t] = "locked" => Tracker(t) \in lock
  /\ \A c \in Callers :
       Done(c, "get_progress") =>
         (call[c].view = ViewOf(call[c].pre) /\ call[c].view = ViewOf(Snapshot))

\* get_progress returns the view of a session paused at p > 0 while a
\* tracking thread waits for the lock
C10_Witness ==
  \E c \in Callers :
    /\ Done(c, "get_progress")
    /\ call[c].view[1] = FALSE /\ call[c].view[2] > 0
    /\ \E t \in Threads : tpc[t] = "sleep"

TypeOK ==
  /\ current_song \in Songs \cup {NoSong}
  /\ is_playing \in BOOLEAN /\ is_paused \in BOOLEAN
  /\ progress \in 0..100
  /\ now \in 0..MaxTime
  /\ progress_thread \in Threads \cup {NoThread}
  /\ Cardinality(lock) <= 1

\* the percentage a request for v is meant to apply
ClampPercent(v) == Min(100, IF v < 0 THEN 0 ELSE v)

\* C11: set_volume(v) clamps v to [0, 100] before it reaches the device: when
\* set_volume(v) returns, the mixer's volume is the level of
\* min(100, max(0, v)) percent, so set_volume(150) applies 100 percent and
\* set_volume(-10) applies 0.
C11_SetVolumeClamps ==
  \A c \in Callers :
    Done(c, "set_volume") =>
      mixer.volume = Trunc(ClampPercent(call[c].num) * MixMaxVolume, 100)

\* C12: get_progress() is a read-only snapshot in every state: none of its
\* steps changes a session field, the session at its return is the session
\* it found, and the first component of the tuple it returns is true exactly
\* when the state is Playing (false in Idle and in Paused).
C12_GetProgressReadOnly ==
  /\ [](\A c \in Callers :
          Done(c, "get_progress") =>
            /\ Snapshot = call[c].pre
            /\ call[c].view[1] <=> (State = "Playing"))
  /\ [][(\E c \in Callers :
            call'[c].op = "get_progress" /\ call'[c] # call[c])
          => UNCHANGED session]_vars

\* a get_progress returns from a session paused part of the way through
C12_Witness ==
  \E c \in Callers :
    /\ Done(c, "get_progress")
    /\ State = "Paused" /\ progress > 0
    /\ call[c].view = <<FALSE, progress, current_song>>

\* what stop() makes of a session
StopEffect(s) ==
  IF s.playing \/ s.paused
  THEN [s EXCEPT !.playing = FALSE, !.paused = FALSE, !.progress = 0]
  ELSE s

\* C13: skip() is an alias for stop(): from Idle, Playing and Paused a skip()
\* that returns leaves the session exactly as a stop() on the session it
\* found leaves it (the same is checked of stop() itself), and the state it
\* leaves is Idle.
C13_SkipIsStop ==
  \A c \in Callers :
    (Done(c, "skip") \/ Done(c, "stop")) =>
      /\ Snapshot = StopEffect(call[c].pre)
      /\ State = "Idle"

\* a skip() returns from a session it found Paused part of the way through
C13_Witness ==
  \E c \in Callers :
    /\ Done(c, "skip")
    /\ StateOf(call[c].pre) = "Paused" /\ call[c].pre.progress > 0
    /\ State = "Idle" /\ progress = 0

\* caller c is about to make, in this step, a call of op that finds its
\* precondition failed
FailsPrecondition(c, op) ==
  /\ call[c].pc = "idle" /\ call'[c].op = op
  /\ \/ op = "pause" /\ State # "Playing"
     \/ op = "resume" /\ State # "Paused"
     \/ op = "stop" /\ State = "Idle"

\* C14: a control operation whose precondition does not hold has no effect:
\* pause() outside Playing, resume() outside Paused and stop() in Idle are
\* over in one step that changes no session field, starts no thread, sets
\* no stop event and leaves the mixer alone, and the session at their return
\* is the session they found.
C14_NoEffectWithoutPrecondition ==
  /\ [][\A c \in Callers : \A op \in {"pause", "resume", "stop"} :
          FailsPrecondition(c, op) =>
            /\ call'[c].pc = "done"
            /\ UNCHANGED <<session, progress_thread, thread_stop_event, tpc,
                           mixer>>]_vars
  /\ [](\A c \in Callers :
          \/ Done(c, "pause") /\ StateOf(call[c].pre) # "Playing"
          \/ Done(c, "resume") /\ StateOf(call[c].pre) # "Paused"
          \/ Done(c, "stop") /\ StateOf(call[c].pre) = "Idle"
          => Snapshot = call[c].pre)

\* a pause() returns from a session that was already Paused, with its
\* tracker alive and the clock past the instant of the first pause
C14_Witness ==
  \E c \in Callers :
    /\ Done(c, "pause") /\ StateOf(call[c].pre) = "Paused"
    /\ progress_thread # NoThread /\ Alive(progress_thread)
    /\ ProgressAt(now, start_time, song_length) > progress

SimDone == sim.pc = "done"
IsZeroVector(v) == \A i \in DOMAIN v : v[i] = 0

\* the two properties of cosine_similarity that hold as stated
SimZeroAndSymmetric ==
  SimDone =>
    /\ (IsZeroVector(sim.vec1) \/ IsZeroVector(sim.vec2)) => sim.result = Zero
    /\ sim.result = CosineSimilarity(sim.vec2, sim.vec1)

\* 8 units of rounding, 2^(3 - FloatBits): more than the three roundings of
\* a self-similarity (square root, product, quotient) can add up to
Tolerance == Fl(8, Pow2(FloatBits))

\* |x - 1| <= Tolerance
NearOne(x) ==
  /\ ~FlLess(FlAdd(One, Tolerance), x)
  /\ ~FlLess(x, FlAdd(One, <<0 - Tolerance[1], Tolerance[2]>>))

MatchOver == mm.pc \in {"returned", "raised"}

\* the place of the i-th scored song in the list sorted by score descending
\* with ties in library order
RankOf(i) ==
  1 + Cardinality({j \in 1..Len(mm.matches) :
        \/ FlLess(mm.matches[i][2], mm.matches[j][2])
        \/ mm.matches[j][2] = mm.matches[i][2] /\ j < i})

\* C15: for a library of N >= 1 well-formed songs and a provider that
\* answers, match_music(top_n = k) returns; the i-th scored entry is the
\* i-th song of the library with its similarity to the query; and the list
\* returned is the first min(max(1, k), N) entries of these sorted by score
\* descending with ties in library order: min(k, N) entries for k >= 1 and
\* exactly one entry for k < 1.
C15_TopNStable ==
  LET N == Len(lib.songs)
      L == Min(Max(1, mm.top_n), N)
  IN (MatchOver /\ lib.exists /\ N >= 1 /\ mm.failed_at = 0) =>
       /\ mm.pc = "returned"
       /\ Len(mm.matches) = N
       /\ \A i \in 1..N :
            /\ mm.matches[i][1] = lib.songs[i]
            /\ mm.matches[i][2] =
                 CosineSimilarity(EmbeddingOf(mm.query),
                                  EmbeddingOf(SongFeatures(lib.songs[i])))
            /\ RankOf(i) <= L => mm.result[RankOf(i)] = mm.matches[i]
       /\ Len(mm.result) = L
       /\ mm.top_n >= 1 => Len(mm.result) = Min(mm.top_n, N)
       /\ mm.top_n < 1 => Len(mm.result) = 1

\* top_n = 2 on three songs of which the first scores lowest and the other
\* two are tied: the two tied songs come back in library order
C15_Witness ==
  /\ mm.pc = "returned" /\ Len(mm.matches) = 3 /\ mm.top_n = 2
  /\ FlLess(mm.matches[1][2], mm.matches[2][2])
  /\ mm.matches[2][2] = mm.matches[3][2]
  /\ mm.matches[2][1].features # mm.matches[3][1].features
  /\ mm.result = <<mm.matches[2], mm.matches[3]>>

\* C16: match_music on a library file that exists and holds a valid empty
\* array, with a provider that answers, returns an empty list and raises
\* no error.
C16_EmptyLibraryReturnsEmpty ==
  (MatchOver /\ lib.exists /\ lib.songs = <<>> /\ mm.failed_at = 0) =>
    (mm.pc = "returned" /\ mm.result = <<>> /\ mm.error = "none")

\* C17: match_music with a library path that does not exist fails with the
\* error of the library load, returns no rankings, and has issued no
\* embedding call when it fails: the load precedes the query embedding.
C17_MissingLibraryFailsFirst ==
  ~lib.exists =>
    /\ mm.calls = 0 /\ mm.result = <<>>
    /\ mm.pc \in {"idle", "raised"}
    /\ mm.pc = "raised" => mm.error = "FileNotFoundError"

\* the call has failed on a missing file, and it had no api_key either
C17_Witness ==
  /\ ~lib.exists /\ mm.pc = "raised" /\ mm.error = "FileNotFoundError"
  /\ mm.api_key = "" /\ mm.calls = 0

\* C18: if the embedding provider fails on the query or on the i-th song,
\* match_music ends with that exception and returns no rankings at all:
\* the songs scored before the failure are never returned.
C18_NoPartialRankings ==
  mm.failed_at # 0 =>
    /\ mm.pc = "raised" /\ mm.error \in {"TypeError", "ValueError"}
    /\ mm.result = <<>>

\* the provider has failed on the second of three songs, after the query
\* and the first song were embedded
C18_Witness ==
  /\ mm.failed_at = 3 /\ Len(mm.matches) = 1 /\ Len(mm.library) = 3
  /\ mm.pc = "raised" /\ mm.result = <<>>

\* C19: starting from a library whose titles are pairwise distinct, after any
\* sequence of add, edit and delete requests the titles of the stored
\* records are pairwise distinct: an add or a rename whose title collides
\* with an existing record stores no second record with that title.
C19_TitlesStayDistinct ==
  \A i, j \in 1..Len(lib.songs) :
    lib.songs[i].title = lib.songs[j].title => i = j

\* C21: the tracking task started by play() keeps running as long as the
\* session is not Idle: in every state that is Playing or Paused and in
\* which no stop() has requested cancellation, the thread progress_thread
\* names is alive (so each cycle recomputes progress and the value
\* get_progress reads keeps advancing), and a tracking thread ends only when
\* the cancellation event is set.
C21_TrackerKeepsRunning ==
  /\ []((State # "Idle" /\ ~thread_stop_event) =>
          (progress_thread # NoThread /\ Alive(progress_thread)))
  /\ [][\A t \in Threads :
          (Alive(t) /\ tpc'[t] = "none") => thread_stop_event]_vars

\* a step of a tracking thread
TrackerStep == call' = call /\ tpc' # tpc

LockStuck == \E c \in Callers : call[c].pc = "stop_enter"

\* C23: after stop() has been called on an active session, the tracking task
\* started for that session eventually terminates under fair scheduling,
\* whatever operations follow: whenever a stop() waits for the thread t that
\* progress_thread names, t is not alive at some later time (the behaviours
\* in which the lock gets stuck are left aside).
C23_TrackerTerminates ==
  \A t \in Threads :
    (progress_thread = t /\ Alive(t) /\
       \E c \in Callers : call[c].pc = "stop_join" /\ call[c].op = "stop")
      ~> (~Alive(t) \/ LockStuck)

\* C24: the tracking task holds the player's lock only while it reads and
\* updates state and never while it sleeps: a tracking thread that is at its
\* loop test or in its sleep interval does not hold the lock, and one that
\* holds the lock is in the body under "with self.lock".
C24_TrackerSleepsUnlocked ==
  \A t \in Threads :
    /\ tpc[t] \in {"check", "sleep"} => Tracker(t) \notin lock
    /\ Tracker(t) \in lock => tpc[t] = "locked"

\* a pause() is inside the lock while the tracker of the session sleeps
C24_Witness ==
  \E c \in Callers :
    /\ call[c].op = "pause" /\ call[c].pc = "pause_calc"
    /\ Caller(c) \in lock
    /\ progress_thread # NoThread /\ tpc[progress_thread] = "sleep"

\* C25: every operation on the audio output device after construction
\* (load, play, pause, unpause, stop, set_volume, and the release of the
\* device in cleanup()) is executed while the MusicPlayer holds its lock:
\* every step that changes the mixer is a step of a call that holds the lock
\* when the step is over.
C25_MixerOnlyUnderLock ==
  [][mixer' # mixer =>
       \E c \in Callers : call'[c] # call[c] /\ Caller(c) \in lock']_vars

\* C26: in every reachable state of the player 0 <= progress <= 100, after
\* any sequence of play, pause, resume, stop, skip, set_progress(x) with x
\* below 0, inside or above 100, and tracker updates, with a clock that never
\* goes backwards and a positive song length.
C26_ProgressInRange == 0 <= progress /\ progress <= 100

\* a set_progress with an argument above 100 has acted on a Playing session
\* and has stored 100
C26_Witness ==
  \E c \in Callers :
    /\ Done(c, "set_progress") /\ call[c].num > 100
    /\ StateOf(call[c].pre) = "Playing"
    /\ progress = 100 /\ call[c].pre.progress < 100

\* a record with a non-empty title, a type of local or online, and a
\* non-empty link
WellFormed(song) ==
  song.title # "" /\ song.type \in {"local", "online"} /\ song.link # ""

\* C27: starting from a library of well-formed records, after any sequence
\* of add_song, update_song and remove_song requests every stored record has
\* a non-empty title, a type in {local, online} and a non-empty link; and a
\* request that is not answered with success leaves the library unchanged.
C27_RecordsStayWellFormed ==
  /\ [](\A i \in 1..Len(lib.songs) : WellFormed(lib.songs[i]))
  /\ [][req'.status # 200 => lib' = lib]_vars

\* a request to add a song to a library that holds one has been turned away
C27_Witness ==
  /\ lib.exists /\ Len(lib.songs) >= 1
  /\ req.op = "add_song" /\ req.status = 400

\* C28: a successful match_music on a library of N songs issues exactly
\* 1 + N embedding calls, one after another: the texts asked for are the
\* query, once and first, then the features of each song in library order,
\* none skipped and none twice; and no step issues more than one call.
C28_OneCallPerEmbedding ==
  /\ [](mm.pc = "returned" =>
          /\ mm.calls = 1 + Len(lib.songs)
          /\ mm.asked = <<mm.query>> \o
               [i \in 1..Len(lib.songs) |-> SongFeatures(lib.songs[i])])
  /\ [][/\ mm'.calls \in {mm.calls, mm.calls + 1}
        /\ Len(mm'.asked) \in {Len(mm.asked), Len(mm.asked) + 1}]_vars

\* three songs, two of them with the same features, and four calls
C28_Witness ==
  /\ mm.pc = "returned" /\ Len(lib.songs) = 3 /\ mm.calls = 4
  /\ lib.songs[1].features = lib.songs[2].features
  /\ lib.songs[3].features # lib.songs[1].features

\* C29: every similarity score in a list returned by match_music lies in
\* [0, 1], for every query embedding and every song embedding, those whose
\* dot product is negative included.
C29_ScoresInUnitInterval ==
  mm.pc = "returned" =>
    \A i \in 1..Len(mm.result) :
      /\ ~FlLess(mm.result[i][2], Zero)
      /\ ~FlLess(One, mm.result[i][2])

\* a request to /api/analyse is over in which the vision call or match_music
\* failed
AnalyseFailed ==
  req.op = "analyse" /\ req.status # 0 /\ mm.pc \in {"idle", "raised"}

\* C30: in the /api/analyse handler, a failure of the vision call or of
\* match_music is answered with the well-formed "no recommendation" response
\* (the JSON error with status 404) and not with a crash of the request;
\* player.play is not invoked; and no step of the handler before play()
\* changes the playback session.
C30_FailureIsNoRecommendation ==
  /\ [](AnalyseFailed =>
          /\ req.status = 404
          /\ \A c \in Callers : call[c].op # "play")
  /\ [][(call' = call /\ tpc' = tpc) => UNCHANGED <<session, mixer>>]_vars

\* an edit_library call has returned without an exception
Edited == req.op = "edit_library" /\ req.error = "none"

\* the value a field of the edited record has: the new one if it is
\* non-empty, else the old one
Kept(new, old) == IF new # "" THEN new ELSE old

NoSuchTitle ==
  \A i \in 1..Len(req.before) : req.before[i].title # req.target_title

\* C32: edit_library and delete_song called with a target title that no
\* record has fail with the not-found error, and with no other title do
\* they fail so; an edit_library with a new link for a record whose type is
\* then neither local nor online fails with TypeError; and a call that
\* fails leaves the library file as it found it.
C32_FailedWriteLeavesFile ==
  req.op \in {"edit_library", "delete_song"} =>
    /\ NoSuchTitle <=> req.error = "FileNotFoundError"
    /\ (req.op = "edit_library" /\ ~NoSuchTitle /\ req.new_link # "" /\
         Kept(req.new_type,
              req.before[FirstWithTitle(req.before, req.target_title)].type)
           \notin {"local", "online"})
          => req.error = "TypeError"
    /\ req.error # "none" => lib.songs = req.before

\* an edit that was given a new title, the type radio and a new link for a
\* record the file holds has failed on the type, and the title it had
\* already set is not in the file
C32_Witness ==
  /\ req.op = "edit_library" /\ req.error = "TypeError"
  /\ req.new_title # "" /\ req.new_type = "radio" /\ req.new_link # ""
  /\ ~NoSuchTitle /\ Len(req.before) >= 2
  /\ lib.songs = req.before

\* the step of caller c is a whole set_progress call
SetProgressStep(c) ==
  call[c].pc = "idle" /\ call'[c].pc = "done" /\ call'[c].op = "set_progress"

\* the step writes the progress a pause() or a tracking thread has computed
RecomputeStep ==
  \/ \E c \in Callers : call[c].pc = "pause_calc" /\ call'[c].pc = "done"
  \/ \E t \in Threads : tpc[t] = "locked" /\ tpc'[t] = "none"

\* C33: set_progress(x) has no effect unless the state is Playing; in state
\* Playing it sets progress to min(100, max(0, x)) and changes nothing else
\* (state, current_song and start_time are unchanged); and the next pause()
\* or tracker update writes the progress computed from the clock and
\* start_time, whatever value was set.
C33_SetProgressOnlyProgress ==
  [][/\ \A c \in Callers :
          SetProgressStep(c) =>
            /\ progress' = IF State = "Playing"
                            THEN Min(100, Max(0, call'[c].num))
                            ELSE progress
            /\ UNCHANGED <<current_song, is_playing, is_paused, song_length,
                           start_time, progress_thread, thread_stop_event,
                           mixer>>
     /\ RecomputeStep =>
          progress' = ProgressAt(now, start_time, song_length)]_vars

\* a set_progress(50) on a Playing session has stored 50 while the clock
\* says otherwise, and start_time is what it was
C33_Witness ==
  \E c \in Callers :
    /\ Done(c, "set_progress") /\ call[c].num = 50
    /\ StateOf(call[c].pre) = "Playing" /\ State = "Playing"
    /\ progress = 50
    /\ ProgressAt(now, start_time, song_length) # 50
    /\ start_time = call[c].pre.start

====
